---- MODULE Spec2Model ----
(***************************************************************************)
(* Model of scraper.py: the Scientific American latest-issue scraper.      *)
(*                                                                         *)
(* A run of main() is a state machine: fetch, extract_window_data,         *)
(* normalize_articles_from_window_data (one step per record),              *)
(* extract_articles_from_jsonld (one step per block), create_rss_feed (one *)
(* step per record) and the file write.  Decoded JSON is a tagged value;   *)
(* text is a sequence of one-character strings, so that prefix tests, tag  *)
(* stripping, URL joining, XML escaping and date formatting are computed   *)
(* and not assumed.  A Python exception is the value Raise(e).             *)
(***************************************************************************)
EXTENDS Integers, Sequences, FiniteSets, TLC

VARIABLES
    page,          \* the input of the run: what the page text decodes to
    pc,            \* position in main() and its callees
    html_content,  \* main: result of fetch_with_flaresolverr ("none", "empty", "text")
    window_data,   \* extract_articles_from_html: result of extract_window_data
    previews,      \* normalize_articles_from_window_data: article_previews
    sec,           \* normalize: index into SECTIONS of the section being read
    idx,           \* index of the next element of the loop in progress
    primary,       \* list built by normalize_articles_from_window_data
    primary_out,   \* how the primary stage ended ("pending" until it has)
    jsonld_called, \* extract_articles_from_jsonld was entered
    scanned,       \* number of JSON-LD blocks examined so far
    articles,      \* main: the value returned by extract_articles_from_html
    items,         \* create_rss_feed: the <item> elements appended so far
    rss_content,   \* main: "none" until create_rss_feed has returned
    file_opened,   \* the output file was opened for writing
    file_written,  \* the feed document was written to the file
    result,        \* "running", "True", "False" or "raised"
    exc            \* <<exception, position>> of the exception that ended the run

vars == <<page, pc, html_content, window_data, previews, sec, idx, primary,
          primary_out, jsonld_called, scanned, articles, items, rss_content,
          file_opened, file_written, result, exc>>

----------------------------------------------------------------------------
(* Bounds of the model.                                                    *)

MaxSec == 2      \* longest section list built from the two-record pool
MaxParts == 3    \* longest hasPart list built from the small pool
MaxBlocks == 2   \* most JSON-LD blocks in a page

----------------------------------------------------------------------------
(* Decoded JSON / Python values.                                           *)

Null == [t |-> "null"]
Num(n) == [t |-> "num", n |-> n]
Str(s) == [t |-> "str", s |-> s]
List(xs) == [t |-> "list", items |-> xs]
Dict(kv) == [t |-> "dict", kv |-> kv]      \* kv: sequence of <<key, value>>
Raise(e) == [t |-> "raise", exc |-> e]

IsStr(v) == v.t = "str"
IsDict(v) == v.t = "dict"
IsList(v) == v.t = "list"
IsRaise(v) == v.t = "raise"

EmptyStr == Str(<<>>)

\* Python truth value of v.
Truthy(v) ==
    CASE v.t = "null" -> FALSE
      [] v.t = "num" -> v.n # 0
      [] v.t = "str" -> Len(v.s) > 0
      [] v.t = "list" -> Len(v.items) > 0
      [] v.t = "dict" -> Len(v.kv) > 0

\* a or b
Or(a, b) == IF Truthy(a) THEN a ELSE b

HasKey(d, k) == \E i \in 1..Len(d.kv) : d.kv[i][1] = k

Lookup(d, k) == d.kv[CHOOSE i \in 1..Len(d.kv) : d.kv[i][1] = k][2]

\* v.get(k, default): AttributeError unless v is a dict.
Get(v, k, default) ==
    IF ~IsDict(v) THEN Raise("AttributeError")
    ELSE IF HasKey(v, k) THEN Lookup(v, k) ELSE default

\* v[k] with a string key: KeyError on a dict without it, TypeError on
\* anything that is not a dict (None, a number, a list, a string).
Subscript(v, k) ==
    IF IsRaise(v) THEN v
    ELSE IF ~IsDict(v) THEN Raise("TypeError")
    ELSE IF HasKey(v, k) THEN Lookup(v, k) ELSE Raise("KeyError")

\* The characters of the dict keys that the model iterates over.
KeyChars(k) ==
    CASE k = "name" -> <<"n", "a", "m", "e">>
      [] k = "url" -> <<"u", "r", "l">>

\* The sequence "for x in v" runs over: the items of a list, the characters
\* of a string, the keys of a dict; TypeError for None and numbers.
Iter(v) ==
    CASE v.t = "list" -> v.items
      [] v.t = "str" -> [i \in 1..Len(v.s) |-> Str(<<v.s[i]>>)]
      [] v.t = "dict" -> [i \in 1..Len(v.kv) |-> Str(KeyChars(v.kv[i][1]))]
      [] OTHER -> Raise("TypeError")

----------------------------------------------------------------------------
(* Text: sequences of one-character strings.                               *)

Digits == <<"0", "1", "2", "3", "4", "5", "6", "7", "8", "9">>

IsDigit(c) == \E i \in 1..10 : Digits[i] = c

DigitVal(c) == (CHOOSE i \in 1..10 : Digits[i] = c) - 1

IsAlpha(c) ==
    c \in {"a", "b", "c", "d", "e", "f", "g", "h", "i", "j", "k", "l", "m",
           "n", "o", "p", "q", "r", "s", "t", "u", "v", "w", "x", "y", "z",
           "A", "B", "C", "D", "E", "F", "G", "H", "I", "J", "K", "L", "M",
           "N", "O", "P", "Q", "R", "S", "T", "U", "V", "W", "X", "Y", "Z"}

IsSpace(c) == c \in {" ", "\n", "\t"}

StartsWith(s, p) == Len(s) >= Len(p) /\ SubSeq(s, 1, Len(p)) = p

EndsWith(s, p) == Len(s) >= Len(p) /\ SubSeq(s, Len(s) - Len(p) + 1, Len(s)) = p

Drop(s, n) == SubSeq(s, n + 1, Len(s))

\* Decimal digits of a natural number (str() of an int).
RECURSIVE NatChars(_)
NatChars(n) == IF n < 10 THEN <<Digits[n + 1]>>
               ELSE NatChars(n \div 10) \o <<Digits[(n % 10) + 1]>>

\* Two-digit and four-digit zero-padded decimal.
Pad2(n) == <<Digits[(n \div 10) + 1], Digits[(n % 10) + 1]>>
Pad4(n) == Pad2(n \div 100) \o Pad2(n % 100)

\* str.strip()
RECURSIVE LStrip(_)
LStrip(s) == IF s # <<>> /\ IsSpace(Head(s)) THEN LStrip(Tail(s)) ELSE s

RECURSIVE RStrip(_)
RStrip(s) == IF s # <<>> /\ IsSpace(s[Len(s)]) THEN RStrip(SubSeq(s, 1, Len(s) - 1)) ELSE s

Strip(s) == RStrip(LStrip(s))

----------------------------------------------------------------------------
(* Configuration (scraper.py lines 19-20).                                 *)

BASE_URL == <<"h", "t", "t", "p", "s", ":", "/", "/", "w", "w", "w", ".", "s", "c", "i", "e", "n", "t", "i", "f", "i", "c", "a", "m", "e", "r", "i", "c", "a", "n", ".", "c", "o", "m">>

----------------------------------------------------------------------------
(* _strip_html                                                             *)

\* Index of the first ">" of s at or after position i, 0 if there is none.
RECURSIVE FindGt(_, _)
FindGt(s, i) == IF i > Len(s) THEN 0
                ELSE IF s[i] = ">" THEN i ELSE FindGt(s, i + 1)

\* re.sub(r'<[^>]+>', '', s): a "<", one or more characters other than ">",
\* then ">" is removed; "<>" and an unclosed "<" stay.
RECURSIVE RemoveTags(_)
RemoveTags(s) ==
    IF s = <<>> THEN <<>>
    ELSE IF Head(s) = "<" /\ FindGt(s, 2) >= 3 THEN RemoveTags(Drop(s, FindGt(s, 2)))
    ELSE <<Head(s)>> \o RemoveTags(Tail(s))

\* _strip_html(text): '' for a false value, TypeError from re.sub for a true
\* value that is not a string.
strip_html(text) ==
    IF ~Truthy(text) THEN EmptyStr
    ELSE IF ~IsStr(text) THEN Raise("TypeError")
    ELSE Str(Strip(RemoveTags(text.s)))

----------------------------------------------------------------------------
(* escape_xml                                                              *)

EscapeChar(c) ==
    CASE c = "&" -> <<"&", "a", "m", "p", ";">>
      [] c = "<" -> <<"&", "l", "t", ";">>
      [] c = ">" -> <<"&", "g", "t", ";">>
      [] c = "\"" -> <<"&", "q", "u", "o", "t", ";">>
      [] c = "'" -> <<"&", "a", "p", "o", "s", ";">>
      [] OTHER -> <<c>>

RECURSIVE EscapeChars(_)
EscapeChars(s) == IF s = <<>> THEN <<>> ELSE EscapeChar(Head(s)) \o EscapeChars(Tail(s))

\* str(v) for the values the serializer formats: strings and non-negative
\* integers.
PyStr(v) ==
    CASE v.t = "str" -> v.s
      [] v.t = "num" -> NatChars(v.n)

\* escape_xml(text): the escaped characters of str(text), '' for a false value.
escape_xml(text) == IF ~Truthy(text) THEN <<>> ELSE EscapeChars(PyStr(text))

----------------------------------------------------------------------------
(* urllib.parse.urljoin(base, url) for a base without a path, as BASE_URL  *)
(* is, and references without "?", "#", ";" or dot segments.                *)

IsSchemeChar(c) == IsAlpha(c) \/ IsDigit(c) \/ c \in {"+", "-", "."}

RECURSIVE FindColon(_, _)
FindColon(s, i) == IF i > Len(s) THEN 0
                   ELSE IF s[i] = ":" THEN i ELSE FindColon(s, i + 1)

\* urlsplit: position of the ":" ending the scheme of u, 0 when u has none.
SchemeEnd(u) ==
    LET i == FindColon(u, 1)
    IN IF i > 1 /\ IsAlpha(u[1]) /\ \A j \in 1..(i - 1) : IsSchemeChar(u[j])
       THEN i ELSE 0

HTTPS == <<"h", "t", "t", "p", "s">>

urljoin(base, url) ==
    IF ~IsStr(url) THEN Raise("TypeError")
    ELSE LET u == url.s
             i == SchemeEnd(u)
             scheme == IF i = 0 THEN HTTPS ELSE SubSeq(u, 1, i - 1)
             rest == IF i = 0 THEN u ELSE Drop(u, i)
         IN IF scheme # HTTPS THEN url
            ELSE IF StartsWith(rest, <<"/", "/">>) THEN Str(HTTPS \o <<":">> \o rest)
            ELSE IF rest = <<>> THEN Str(base)
            ELSE IF Head(rest) = "/" THEN Str(base \o rest)
            ELSE Str(base \o <<"/">> \o rest)

----------------------------------------------------------------------------
(* parse_pubdate_iso_to_rfc822                                             *)

AllDigits(s) == \A i \in 1..Len(s) : IsDigit(s[i])

RECURSIVE ToNat(_)
ToNat(s) == IF s = <<>> THEN 0
            ELSE 10 * ToNat(SubSeq(s, 1, Len(s) - 1)) + DigitVal(s[Len(s)])

IsLeap(y) == (y % 4 = 0 /\ y % 100 # 0) \/ y % 400 = 0

DaysInMonth(y, m) ==
    IF m = 2 THEN (IF IsLeap(y) THEN 29 ELSE 28)
    ELSE IF m \in {4, 6, 9, 11} THEN 30 ELSE 31

Fail == [ok |-> FALSE]

\* str.replace('Z', '+00:00'): every "Z" is replaced.
RECURSIVE ReplaceZ(_)
ReplaceZ(s) ==
    IF s = <<>> THEN <<>>
    ELSE (IF Head(s) = "Z" THEN <<"+", "0", "0", ":", "0", "0">> ELSE <<Head(s)>>) \o ReplaceZ(Tail(s))

\* The date part YYYY-MM-DD of datetime.fromisoformat.
ParseDate(d) ==
    IF Len(d) = 10 /\ AllDigits(SubSeq(d, 1, 4)) /\ d[5] = "-"
       /\ AllDigits(SubSeq(d, 6, 7)) /\ d[8] = "-" /\ AllDigits(SubSeq(d, 9, 10))
    THEN LET y == ToNat(SubSeq(d, 1, 4))
             m == ToNat(SubSeq(d, 6, 7))
             dd == ToNat(SubSeq(d, 9, 10))
         IN IF y >= 1 /\ m \in 1..12 /\ dd >= 1 /\ dd <= DaysInMonth(y, m)
            THEN [ok |-> TRUE, y |-> y, m |-> m, d |-> dd]
            ELSE Fail
    ELSE Fail

\* The clock part HH[:MM[:SS[.fff[fff]]]] of datetime.fromisoformat; the
\* fraction is parsed and not printed by the format the program uses.
ParseClock(c) ==
    LET n == Len(c)
        two(i) == AllDigits(SubSeq(c, i, i + 1))
        num(i) == ToNat(SubSeq(c, i, i + 1))
        shape == /\ n \in {2, 5, 8, 12, 15}
                 /\ two(1)
                 /\ n >= 5 => (c[3] = ":" /\ two(4))
                 /\ n >= 8 => (c[6] = ":" /\ two(7))
                 /\ n >= 12 => (c[9] = "." /\ AllDigits(SubSeq(c, 10, n)))
    IN IF ~shape THEN Fail
       ELSE LET h == num(1)
                mi == IF n >= 5 THEN num(4) ELSE 0
                s == IF n >= 8 THEN num(7) ELSE 0
            IN IF h < 24 /\ mi < 60 /\ s < 60
               THEN [ok |-> TRUE, h |-> h, mi |-> mi, s |-> s]
               ELSE Fail

\* The UTC offset [+-]HH:MM of datetime.fromisoformat.
ParseOffset(z) ==
    IF Len(z) = 6 /\ z[1] \in {"+", "-"} /\ AllDigits(SubSeq(z, 2, 3)) /\ z[4] = ":"
       /\ AllDigits(SubSeq(z, 5, 6))
       /\ ToNat(SubSeq(z, 2, 3)) < 24 /\ ToNat(SubSeq(z, 5, 6)) < 60
    THEN [ok |-> TRUE, sign |-> z[1], hh |-> ToNat(SubSeq(z, 2, 3)), mm |-> ToNat(SubSeq(z, 5, 6))]
    ELSE Fail

\* Index of the first "+" or "-" of s at or after position i, 0 if none.
RECURSIVE FindSign(_, _)
FindSign(s, i) == IF i > Len(s) THEN 0
                  ELSE IF s[i] \in {"+", "-"} THEN i ELSE FindSign(s, i + 1)

\* datetime.fromisoformat(s), for the grammar every CPython release accepts:
\* YYYY-MM-DD[*HH[:MM[:SS[.fff[fff]]]][+HH:MM]].  aware is FALSE for a naive
\* datetime.  Fail stands for ValueError.
fromisoformat(s) ==
    IF Len(s) < 10 THEN Fail
    ELSE LET date == ParseDate(SubSeq(s, 1, 10))
             tstr == Drop(s, 11)
             zpos == FindSign(tstr, 1)
             clock == IF Len(s) = 10 THEN [ok |-> TRUE, h |-> 0, mi |-> 0, s |-> 0]
                      ELSE IF zpos = 0 THEN ParseClock(tstr)
                      ELSE ParseClock(SubSeq(tstr, 1, zpos - 1))
             off == IF Len(s) = 10 \/ zpos = 0 THEN Fail ELSE ParseOffset(Drop(tstr, zpos - 1))
         IN IF ~date.ok \/ ~clock.ok THEN Fail
            ELSE IF Len(s) > 10 /\ zpos # 0 /\ ~off.ok THEN Fail
            ELSE [ok |-> TRUE, y |-> date.y, m |-> date.m, d |-> date.d,
                  h |-> clock.h, mi |-> clock.mi, s |-> clock.s,
                  aware |-> (Len(s) > 10 /\ zpos # 0),
                  off |-> IF Len(s) > 10 /\ zpos # 0 THEN Pad2(off.hh) \o Pad2(off.mm) ELSE <<>>,
                  sign |-> IF Len(s) > 10 /\ zpos # 0 THEN off.sign ELSE ""]

DayNames ==
    <<<<"S", "u", "n">>,
      <<"M", "o", "n">>,
      <<"T", "u", "e">>,
      <<"W", "e", "d">>,
      <<"T", "h", "u">>,
      <<"F", "r", "i">>,
      <<"S", "a", "t">>>>

MonthNames ==
    <<<<"J", "a", "n">>,
      <<"F", "e", "b">>,
      <<"M", "a", "r">>,
      <<"A", "p", "r">>,
      <<"M", "a", "y">>,
      <<"J", "u", "n">>,
      <<"J", "u", "l">>,
      <<"A", "u", "g">>,
      <<"S", "e", "p">>,
      <<"O", "c", "t">>,
      <<"N", "o", "v">>,
      <<"D", "e", "c">>>>

MonthShift == <<0, 3, 2, 5, 0, 3, 5, 1, 4, 6, 2, 4>>

\* Day of the week of a Gregorian date, 0 for Sunday.
Weekday(y, m, d) ==
    LET yy == IF m < 3 THEN y - 1 ELSE y
    IN (yy + (yy \div 4) - (yy \div 100) + (yy \div 400) + MonthShift[m] + d) % 7

\* dt.strftime('%a, %d %b %Y %H:%M:%S %z'); %z is empty for a naive datetime.
strftime(dt) ==
    DayNames[Weekday(dt.y, dt.m, dt.d) + 1] \o <<",", " ">> \o Pad2(dt.d) \o <<" ">>
    \o MonthNames[dt.m] \o <<" ">> \o Pad4(dt.y) \o <<" ">>
    \o Pad2(dt.h) \o <<":">> \o Pad2(dt.mi) \o <<":">> \o Pad2(dt.s) \o <<" ">>
    \o (IF dt.aware THEN <<dt.sign>> \o dt.off ELSE <<>>)

\* re.match(r'^\d{4}-\d{2}-\d{2}T\d{2}:\d{2}:\d{2}$', s)
MatchesNaiveDateTime(s) ==
    /\ Len(s) = 19
    /\ AllDigits(SubSeq(s, 1, 4)) /\ s[5] = "-" /\ AllDigits(SubSeq(s, 6, 7))
    /\ s[8] = "-" /\ AllDigits(SubSeq(s, 9, 10)) /\ s[11] = "T"
    /\ AllDigits(SubSeq(s, 12, 13)) /\ s[14] = ":" /\ AllDigits(SubSeq(s, 15, 16))
    /\ s[17] = ":" /\ AllDigits(SubSeq(s, 18, 19))

\* parse_pubdate_iso_to_rfc822(pub_date_iso): any exception (AttributeError
\* of a value without endswith, ValueError of fromisoformat) gives ''.
parse_pubdate_iso_to_rfc822(pub_date_iso) ==
    IF ~Truthy(pub_date_iso) THEN <<>>
    ELSE IF ~IsStr(pub_date_iso) THEN <<>>
    ELSE LET s == pub_date_iso.s
             dt == IF EndsWith(s, <<"Z">>) THEN fromisoformat(ReplaceZ(s))
                   ELSE IF MatchesNaiveDateTime(s) THEN fromisoformat(s \o <<"+", "0", "0", ":", "0", "0">>)
                   ELSE fromisoformat(s)
         IN IF dt.ok THEN strftime(dt) ELSE <<>>

----------------------------------------------------------------------------
(* Field normalizers                                                       *)

\* First element of a list of values that resolves to an author name.
RECURSIVE FirstAuthor(_)
FirstAuthor(xs) ==
    IF xs = <<>> THEN EmptyStr
    ELSE LET a == Head(xs)
         IN IF IsStr(a) THEN a
            ELSE IF IsDict(a) /\ Truthy(Get(a, "name", Null)) THEN Lookup(a, "name")
            ELSE FirstAuthor(Tail(xs))

normalize_author_field(author_field) ==
    IF ~Truthy(author_field) THEN EmptyStr
    ELSE IF IsStr(author_field) THEN author_field
    ELSE IF IsDict(author_field) THEN Get(author_field, "name", EmptyStr)
    ELSE IF IsList(author_field) THEN FirstAuthor(author_field.items)
    ELSE EmptyStr

DescLimit == 500

Take(s, n) == IF Len(s) <= n THEN s ELSE SubSeq(s, 1, n)

\* ' '.join(str(x) for x in xs if isinstance(x, str))
RECURSIVE JoinStrs(_)
JoinStrs(xs) ==
    IF xs = <<>> THEN <<>>
    ELSE LET rest == JoinStrs(Tail(xs))
             more == \E i \in 2..Len(xs) : IsStr(xs[i])
         IN IF IsStr(Head(xs)) THEN Head(xs).s \o (IF more THEN <<" ">> ELSE <<>>) \o rest
            ELSE rest

DescOf(d) == Or(Or(Get(d, "description", Null), Get(d, "name", Null)), EmptyStr)

extract_description(article) ==
    LET about == Get(article, "about", Null)
        desc == Or(Or(Get(article, "description", Null), Get(article, "dek", Null)), EmptyStr)
    IN IF IsStr(about) THEN about
       ELSE IF IsDict(about) THEN DescOf(about)
       ELSE IF IsStr(desc) THEN desc
       ELSE IF IsDict(desc) THEN DescOf(desc)
       ELSE IF IsList(desc) THEN Str(Take(JoinStrs(desc.items), DescLimit))
       ELSE EmptyStr

ImageOf(d) == Or(Or(Get(d, "url", Null), Get(d, "@id", Null)), EmptyStr)

extract_image_url(image_field) ==
    IF ~Truthy(image_field) THEN EmptyStr
    ELSE IF IsStr(image_field) THEN image_field
    ELSE IF IsDict(image_field) THEN ImageOf(image_field)
    ELSE IF IsList(image_field) THEN
        LET first == image_field.items[1]
        IN IF IsStr(first) THEN first
           ELSE IF IsDict(first) THEN ImageOf(first)
           ELSE EmptyStr
    ELSE EmptyStr

----------------------------------------------------------------------------
(* normalize_articles_from_window_data: the body of the loop, for one      *)
(* element a of a section list.                                            *)

Iterable(v) == v.t \in {"list", "str", "dict"}

\* [{'name': n} for n in author_names] for a sequence of dicts.
RECURSIVE AuthorDicts(_)
AuthorDicts(aus) ==
    IF aus = <<>> THEN <<>>
    ELSE (IF Truthy(Get(Head(aus), "name", Null))
          THEN <<Dict(<< <<"name", Get(Head(aus), "name", EmptyStr)>> >>)>>
          ELSE <<>>) \o AuthorDicts(Tail(aus))

\* author_names of lines 106-107: TypeError when authors cannot be iterated,
\* AttributeError when an entry has no get.
author_list(authors) ==
    IF ~Iterable(authors) THEN Raise("TypeError")
    ELSE IF \E i \in 1..Len(Iter(authors)) : ~IsDict(Iter(authors)[i]) THEN Raise("AttributeError")
    ELSE List(AuthorDicts(Iter(authors)))

\* The dict appended for the element a (lines 106-121), or the exception.
normalize_record(a) ==
    IF ~IsDict(a) THEN Raise("AttributeError")
    ELSE LET author == author_list(Get(a, "authors", List(<<>>)))
             raw_url == Get(a, "url", EmptyStr)
             full_url == IF Truthy(raw_url) THEN urljoin(BASE_URL, raw_url) ELSE EmptyStr
             about == strip_html(Get(a, "summary", EmptyStr))
         IN IF IsRaise(author) THEN author
            ELSE IF IsRaise(full_url) THEN full_url
            ELSE IF IsRaise(about) THEN about
            ELSE Dict(<<
                <<"headline", Or(Or(Get(a, "title", Null), Get(a, "display_title", Null)), EmptyStr)>>,
                <<"about", about>>,
                <<"datePublished", Or(Or(Get(a, "date_published", Null), Get(a, "release_date", Null)), EmptyStr)>>,
                <<"url", full_url>>,
                <<"image", Get(a, "image_url", EmptyStr)>>,
                <<"author", author>>,
                <<"_column", Get(a, "column", EmptyStr)>>,
                <<"_category", Get(a, "category", EmptyStr)>> >>)

----------------------------------------------------------------------------
(* create_rss_feed: the body of the loop, for one dict-shaped record.      *)

UNTITLED == <<"U", "n", "t", "i", "t", "l", "e", "d", " ", "A", "r", "t", "i", "c", "l", "e">>

HTTP == <<"h", "t", "t", "p">>

\* Lines 304-305.
item_title(article) ==
    strip_html(Or(Or(Get(article, "headline", Null), Get(article, "name", Null)), Str(UNTITLED)))

\* Line 308: the test that decides whether the URL is joined to the base.
needs_join(article_url) == ~StartsWith(article_url.s, HTTP)

\* Lines 307-309: AttributeError for a true value without startswith.
item_url(article) ==
    LET article_url == Or(Get(article, "url", Null), EmptyStr)
    IN IF ~Truthy(article_url) THEN article_url
       ELSE IF ~IsStr(article_url) THEN Raise("AttributeError")
       ELSE IF needs_join(article_url) THEN urljoin(BASE_URL, article_url)
       ELSE article_url

\* Lines 315-316.
item_image(article) ==
    LET image_raw == extract_image_url(Get(article, "image", EmptyStr))
    IN IF Truthy(image_raw) THEN urljoin(BASE_URL, image_raw) ELSE EmptyStr

\* Lines 312-313.
item_date(article) ==
    parse_pubdate_iso_to_rfc822(
        Or(Or(Get(article, "datePublished", Null), Get(article, "dateCreated", Null)), EmptyStr))

\* Line 320.
guid_value(article_url, title) == Or(article_url, title)

\* Line 321.
is_permalink(article_url) == IF StartsWith(article_url.s, HTTP) THEN "true" ELSE "false"

\* The <item> appended for the record at position i (lines 304-341): each
\* field holds the escaped text of its element, <<>> when the element is
\* omitted; from is the position of the record in the list.  The exception
\* instead when a statement of the body raises.
rss_item(article, i) ==
    LET title == item_title(article)
        article_url == item_url(article)
        image_url == item_image(article)
    IN IF IsRaise(title) THEN title
       ELSE IF IsRaise(article_url) THEN article_url
       ELSE IF IsRaise(image_url) THEN image_url
       ELSE [t |-> "item",
             from |-> i,
             title |-> escape_xml(title),
             link |-> escape_xml(article_url),
             description |-> escape_xml(extract_description(article)),
             pubDate |-> EscapeChars(item_date(article)),
             creator |-> escape_xml(normalize_author_field(Get(article, "author", Null))),
             guid |-> escape_xml(guid_value(article_url, title)),
             isPermaLink |-> is_permalink(article_url),
             image |-> escape_xml(image_url)]

----------------------------------------------------------------------------
(* The page.  The regular expressions and json.loads of the program are    *)
(* modelled by their outcome: page.wrapped and page.bare are what the two  *)
(* patterns of extract_window_data capture (Absent when the pattern does   *)
(* not match, BadJson when the capture does not decode, the decoded value  *)
(* otherwise); page.blocks are the JSON-LD script bodies in document       *)
(* order, each Blank or with the outcome of the strict parse and of the    *)
(* parse after the trailing-comma repair.                                  *)

Absent == [t |-> "absent"]
BadJson == [t |-> "bad"]
Blank == [t |-> "blank"]
Block(strict, cleaned) == [t |-> "block", strict |-> strict, cleaned |-> cleaned]
Good(v) == Block(v, v)
Repaired(v) == Block(BadJson, v)
Broken == Block(BadJson, BadJson)

\* extract_window_data (lines 59-87): the JSON.parse form is tried first,
\* the plain assignment only when it is not found; None when neither is
\* found or the capture does not decode.
extract_window_data(pg) ==
    LET match == IF pg.wrapped.t # "absent" THEN pg.wrapped ELSE pg.bare
    IN IF match.t \in {"absent", "bad"} THEN Null ELSE match

SECTIONS == <<"advances", "departments", "features">>

\* Lines 96-100: the nested path, or the exception the except clause catches.
article_previews(wd) ==
    Subscript(Subscript(Subscript(wd, "initialData"), "issueData"), "article_previews")

\* previews.get(section, []) of line 104.
section_list(pv, s) == Get(pv, SECTIONS[s], List(<<>>))

PUBLICATION_ISSUE == <<"P", "u", "b", "l", "i", "c", "a", "t", "i", "o", "n", "I", "s", "s", "u", "e">>

IsIssue(item) ==
    /\ IsDict(item)
    /\ IsStr(Get(item, "@type", Null))
    /\ Get(item, "@type", Null).s = PUBLICATION_ISSUE

\* Lines 164-167 and 169-172: hasPart of the first PublicationIssue entry,
\* [] when there is none.
RECURSIVE first_issue_parts(_)
first_issue_parts(entries) ==
    IF entries = <<>> THEN List(<<>>)
    ELSE IF IsIssue(Head(entries)) THEN Get(Head(entries), "hasPart", List(<<>>))
    ELSE first_issue_parts(Tail(entries))

\* Lines 148-159: the decoded data of a block, Absent when the block is
\* skipped (blank text, or no parse succeeds).
block_data(b) ==
    IF b.t = "blank" THEN Absent
    ELSE IF b.strict.t # "bad" THEN b.strict
    ELSE IF b.cleaned.t # "bad" THEN b.cleaned
    ELSE Absent

\* Lines 162-172: candidates for decoded data; TypeError when '@graph'
\* cannot be iterated.
candidates_of(data) ==
    IF IsDict(data) THEN
        LET graph == Get(data, "@graph", List(<<data>>))
        IN IF ~Iterable(graph) THEN Raise("TypeError")
           ELSE first_issue_parts(Iter(graph))
    ELSE IF IsList(data) THEN first_issue_parts(data.items)
    ELSE List(<<>>)

\* A scan that stops at the first block with an issue entry or without.
block_wins_always(candidates) == TRUE

\* Line 174: the test that ends the scan with this block's candidates.
block_wins(candidates) == Truthy(candidates)

\* len(v) is defined: line 175 formats len(candidates) before returning.
HasLen(v) == v.t \in {"list", "str", "dict"}

\* What one iteration of the loop of lines 147-176 yields for block b:
\* Absent to go on to the next block, the exception, or the value returned.
scan_block(b) ==
    LET data == block_data(b)
    IN IF data.t = "absent" THEN Absent
       ELSE LET candidates == candidates_of(data)
            IN IF IsRaise(candidates) THEN candidates
               ELSE IF ~block_wins(candidates) THEN Absent
               ELSE IF ~HasLen(candidates) THEN Raise("TypeError")
               ELSE candidates

----------------------------------------------------------------------------
(* Inputs: the pages a run may be given.                                   *)

SeqsUpTo(S, n) == UNION {[1..k -> S] : k \in 0..n}

Field(k, v) == << <<k, v>> >>

\* JSON-LD entries.
Art(kv) == Dict(Field("@type", Str(<<"A", "r", "t", "i", "c", "l", "e">>)) \o kv)
Issue(kv) == Dict(Field("@type", Str(PUBLICATION_ISSUE)) \o kv)
IssueWith(parts) == Issue(Field("hasPart", parts))
WebPage == Dict(Field("@type", Str(<<"W", "e", "b", "P", "a", "g", "e">>)))
NameOnly == Dict(Field("name", Str(<<"x">>)))

Moon == Field("headline", Str(<<"M", "o", "o", "n">>))

HeadShapes ==
    { Moon,
      <<>>,
      Field("name", Str(<<"T", "i", "d", "e", "s">>)),
      Field("headline", EmptyStr) \o Field("name", Str(<<"T", "i", "d", "e", "s">>)),
      Field("headline", EmptyStr),
      Field("headline", Str(<<"<", "b", ">">>)),
      Field("headline", Str(<<" ">>)),
      Field("headline", Str(<<"<", "i", ">", "M", "o", "o", "n", "<", "/", "i", ">">>)),
      Field("headline", Str(<<"S", "u", "n", " ", "&", " ", "M", "o", "o", "n">>)),
      Field("headline", Num(5)),
      Field("headline", List(<<Str(<<"M", "o", "o", "n">>)>>)) }

UrlShapes ==
    { <<>>,
      Field("url", EmptyStr),
      Field("url", Str(<<"/", "a", "r", "t", "i", "c", "l", "e", "/", "m", "o", "o", "n">>)),
      Field("url", Str(<<"a", "r", "t", "i", "c", "l", "e", "/", "m", "o", "o", "n">>)),
      Field("url", Str(<<"h", "t", "t", "p", "s", ":", "/", "/", "w", "w", "w", ".", "s", "c", "i", "e", "n", "t", "i", "f", "i", "c", "a", "m", "e", "r", "i", "c", "a", "n", ".", "c", "o", "m", "/", "a", "r", "t", "i", "c", "l", "e", "/", "m", "o", "o", "n">>)),
      Field("url", Str(<<"h", "t", "t", "p", ":", "/", "/", "e", "x", "a", "m", "p", "l", "e", ".", "c", "o", "m", "/", "m", "o", "o", "n">>)),
      Field("url", Str(<<"h", "t", "t", "p", "-", "a", "r", "c", "h", "i", "v", "e", "/", "m", "o", "o", "n">>)),
      Field("url", Num(7)),
      Field("url", List(<<Str(<<"/", "a", "r", "t", "i", "c", "l", "e", "/", "m", "o", "o", "n">>)>>)) }

DateShapes ==
    { Field("datePublished", Str(<<"2", "0", "2", "4", "-", "0", "1", "-", "1", "5", "T", "1", "0", ":", "0", "0", ":", "0", "0", "Z">>)),
      Field("datePublished", Str(<<"2", "0", "2", "4", "-", "0", "1", "-", "1", "5", "T", "1", "0", ":", "0", "0", ":", "0", "0", ".", "1", "2", "3", "Z">>)),
      Field("datePublished", Str(<<"2", "0", "2", "4", "-", "0", "1", "-", "1", "5", "T", "1", "0", ":", "0", "0", ":", "0", "0", "+", "0", "5", ":", "3", "0">>)),
      Field("datePublished", Str(<<"2", "0", "2", "3", "-", "1", "2", "-", "3", "1", "T", "2", "3", ":", "5", "9", ":", "5", "9", "-", "0", "5", ":", "0", "0">>)),
      Field("datePublished", Str(<<"2", "0", "2", "4", "-", "0", "1", "-", "1", "5", "T", "1", "0", ":", "0", "0", ":", "0", "0">>)),
      Field("datePublished", Str(<<"2", "0", "2", "4", "-", "0", "1", "-", "1", "5">>)),
      Field("datePublished", Str(<<"2", "0", "2", "4", "-", "0", "1", "-", "1", "5", "T", "1", "0", ":", "0", "0", ":", "0", "0", ".", "1", "2", "3">>)),
      Field("datePublished", Str(<<"2", "0", "2", "4", "-", "0", "2", "-", "3", "0", "T", "1", "0", ":", "0", "0", ":", "0", "0", "Z">>)),
      Field("datePublished", Str(<<"n", "e", "x", "t", " ", "w", "e", "e", "k">>)),
      Field("datePublished", Num(2024)),
      Field("datePublished", List(<<Str(<<"2", "0", "2", "4", "-", "0", "1", "-", "1", "5">>)>>)),
      Field("datePublished", EmptyStr) \o Field("dateCreated", Str(<<"2", "0", "2", "4", "-", "0", "2", "-", "2", "9", "T", "0", "0", ":", "0", "0", ":", "0", "0", "Z">>)) }

ImageShapes ==
    { Field("image", Str(<<"h", "t", "t", "p", "s", ":", "/", "/", "s", "t", "a", "t", "i", "c", ".", "e", "x", "a", "m", "p", "l", "e", ".", "c", "o", "m", "/", "m", "o", "o", "n", ".", "j", "p", "g">>)),
      Field("image", Str(<<"/", "i", "m", "g", "/", "m", "o", "o", "n", ".", "j", "p", "g">>)),
      Field("image", Str(<<"i", "m", "g", "/", "m", "o", "o", "n", ".", "j", "p", "g">>)),
      Field("image", Str(<<"h", "t", "t", "p", "-", "i", "m", "g", "/", "m", "o", "o", "n", ".", "j", "p", "g">>)),
      Field("image", Dict(Field("url", Str(<<"/", "i", "m", "g", "/", "m", "o", "o", "n", ".", "j", "p", "g">>)))),
      Field("image", Dict(Field("@id", Str(<<"i", "m", "g", "/", "m", "o", "o", "n", ".", "j", "p", "g">>)))),
      Field("image", Dict(Field("url", Num(9)))),
      Field("image", List(<<Str(<<"/", "i", "m", "g", "/", "m", "o", "o", "n", ".", "j", "p", "g">>), Str(<<"/", "i", "m", "g", "/", "s", "u", "n", ".", "j", "p", "g">>)>>)),
      Field("image", List(<<Dict(Field("url", Str(<<"/", "i", "m", "g", "/", "m", "o", "o", "n", ".", "j", "p", "g">>)))>>)),
      Field("image", List(<<Num(1)>>)),
      Field("image", Num(3)) }

AuthorShapes ==
    { Field("author", Str(<<"A", "n", "n">>)),
      Field("author", Dict(Field("name", Str(<<"A", "n", "n">>)))),
      Field("author", Dict(Field("name", Num(5)))),
      Field("author", List(<<Num(1), Dict(Field("name", EmptyStr)), Dict(Field("name", Str(<<"B", "o", "b">>)))>>)),
      Field("author", Num(5)) }

DescShapes ==
    { Field("about", Str(<<"S", "k", "y">>)),
      Field("about", Dict(Field("name", Str(<<"S", "k", "y">>)))),
      Field("about", Dict(Field("description", Num(8)))),
      Field("description", Str(<<"a", " ", "<", " ", "b">>)),
      Field("description", List(<<Str(<<"O", "n", "e">>), Num(2), Str(<<"T", "w", "o">>)>>)),
      Field("dek", Dict(Field("description", Str(<<"S", "k", "y">>)))),
      Field("description", Num(4)) }

\* Records that vary one field of a plain record, and every headline shape
\* with every URL shape.
FieldShapes ==
    {Art(h \o u) : h \in HeadShapes, u \in UrlShapes}
    \cup {Art(Moon \o f) : f \in DateShapes \cup ImageShapes \cup AuthorShapes \cup DescShapes}

FA == Art(Field("headline", Str(<<"A", "l", "p", "h", "a">>)) \o Field("image", Str(<<"/", "i", "m", "g", "/", "a", ".", "j", "p", "g">>)))
FB == Art(Field("headline", Str(<<"B", "e", "t", "a">>)) \o Field("url", Str(<<"/", "a", "r", "t", "i", "c", "l", "e", "/", "b", "e", "t", "a">>)))
Noise == Str(<<"x">>)

PartLists == {List(xs) : xs \in SeqsUpTo({FA, FB, Noise}, MaxParts)}

HasPartShapes ==
    PartLists \cup {List(<<r>>) : r \in FieldShapes}
    \cup {Null, Num(4), Str(<<"a", "b">>), NameOnly, List(<<Num(1), FA>>)}

Graph(g) == Dict(Field("@graph", g))

BlockShapes ==
    {Good(IssueWith(x)) : x \in HasPartShapes}
    \cup {Good(Graph(List(<<WebPage, IssueWith(x)>>))) : x \in PartLists}
    \cup {Good(List(<<Num(1), WebPage, IssueWith(x)>>)) : x \in PartLists}
    \cup {Good(Graph(g)) : g \in {Num(3), Null, Str(<<"g">>), NameOnly, List(<<>>)}}
    \cup { Good(Issue(<<>>)), Good(WebPage), Good(Num(1)), Good(Str(<<"s">>)), Good(Null),
           Good(List(<<IssueWith(List(<<>>)), IssueWith(List(<<FA>>))>>)),
           Good(Graph(List(<<Issue(<<>>), IssueWith(List(<<FA>>))>>))),
           Good(Issue(Field("@graph", List(<<WebPage>>)) \o Field("hasPart", List(<<FA>>)))),
           Repaired(IssueWith(List(<<FA>>))), Repaired(WebPage), Broken, Blank }

SmallBlocks ==
    { Blank, Broken, Good(WebPage), Good(Issue(<<>>)), Good(IssueWith(List(<<>>))),
      Good(IssueWith(List(<<FB>>))), Repaired(IssueWith(List(<<FA>>))), Good(Graph(Num(3))) }

\* Records of window.__DATA__.
PA == Dict(Field("title", Str(<<"A", "l", "p", "h", "a">>)) \o Field("url", Str(<<"/", "a", "r", "t", "i", "c", "l", "e", "/", "a", "l", "p", "h", "a">>))
           \o Field("summary", Str(<<"<", "p", ">", "O", "n", "e", "<", "/", "p", ">">>))
           \o Field("date_published", Str(<<"2", "0", "2", "4", "-", "0", "3", "-", "0", "1", "T", "0", "8", ":", "0", "0", ":", "0", "0">>))
           \o Field("image_url", Str(<<"/", "i", "m", "g", "/", "a", ".", "j", "p", "g">>))
           \o Field("authors", List(<<Dict(Field("name", Str(<<"A", "n", "n">>)))>>)))
PB == Dict(Field("display_title", Str(<<"B", "e", "t", "a">>)) \o Field("url", Str(<<"a", "r", "t", "i", "c", "l", "e", "/", "b", "e", "t", "a">>)))

PrimaryShapes ==
    { Str(<<"x">>), Num(1), Null,
      Dict(<<>>),
      Dict(Field("title", EmptyStr) \o Field("display_title", Str(<<"B", "e", "t", "a">>))),
      Dict(Field("title", Str(<<"<", "b", ">">>))),
      Dict(Field("title", Str(<<" ">>)) \o Field("url", Str(<<"/", "a", "r", "t", "i", "c", "l", "e", "/", "x">>))),
      Dict(Field("title", Num(5))),
      Dict(Field("title", Str(<<"A", "l", "p", "h", "a">>)) \o Field("url", Str(<<"h", "t", "t", "p", "-", "a", "r", "c", "h", "i", "v", "e", "/", "a", "l", "p", "h", "a">>))),
      Dict(Field("title", Str(<<"A", "l", "p", "h", "a">>)) \o Field("url", Str(<<"h", "t", "t", "p", "s", ":", "/", "/", "w", "w", "w", ".", "s", "c", "i", "e", "n", "t", "i", "f", "i", "c", "a", "m", "e", "r", "i", "c", "a", "n", ".", "c", "o", "m", "/", "a", "r", "t", "i", "c", "l", "e", "/", "a", "l", "p", "h", "a">>))),
      Dict(Field("title", Str(<<"A", "l", "p", "h", "a">>)) \o Field("url", Num(7))),
      Dict(Field("title", Str(<<"A", "l", "p", "h", "a">>)) \o Field("image_url", Str(<<"i", "m", "g", "/", "a", ".", "j", "p", "g">>))),
      Dict(Field("title", Str(<<"A", "l", "p", "h", "a">>)) \o Field("summary", Num(5))),
      Dict(Field("title", Str(<<"A", "l", "p", "h", "a">>)) \o Field("release_date", Str(<<"2", "0", "2", "4", "-", "0", "3", "-", "0", "1">>))),
      Dict(Field("title", Str(<<"A", "l", "p", "h", "a">>)) \o Field("authors", List(<<Str(<<"A", "n", "n">>)>>))),
      Dict(Field("title", Str(<<"A", "l", "p", "h", "a">>)) \o Field("authors", Num(3))),
      Dict(Field("title", Str(<<"A", "l", "p", "h", "a">>)) \o Field("authors", Null)),
      Dict(Field("title", Str(<<"A", "l", "p", "h", "a">>))
           \o Field("authors", List(<<Dict(Field("name", EmptyStr)), Dict(Field("name", Str(<<"B", "o", "b">>)))>>))) }

SectionLists == {List(xs) : xs \in SeqsUpTo({PA, PB}, MaxSec)}

Previews(a, d, f) == Dict(Field("advances", a) \o Field("departments", d) \o Field("features", f))

PreviewShapes ==
    {Previews(a, d, f) : a \in SectionLists, d \in SectionLists, f \in SectionLists}
    \cup {Dict(Field(SECTIONS[s], List(<<r>>))) : s \in 1..3, r \in PrimaryShapes}
    \cup {Dict(Field(SECTIONS[s], x)) : s \in 1..3, x \in {Null, Num(3), Str(<<"a", "b">>), NameOnly}}
    \cup {Dict(<<>>), Null, Num(2), Str(<<"p">>), List(<<PA>>)}

Window(pv) == Dict(Field("initialData", Dict(Field("issueData", Dict(Field("article_previews", pv))))))

WindowShapes ==
    {Window(pv) : pv \in PreviewShapes}
    \cup { Null, Num(0), Num(1), Str(<<"w">>), List(<<>>), List(<<Num(1)>>), Dict(<<>>),
           Dict(Field("initialData", Null)),
           Dict(Field("initialData", Num(1))),
           Dict(Field("initialData", List(<<PA>>))),
           Dict(Field("initialData", Dict(Field("issueData", Dict(<<>>))))),
           Dict(Field("initialData", Dict(Field("issueData", List(<<>>))))) }

Page(w, b, bs) == [wrapped |-> w, bare |-> b, blocks |-> bs]

FallbackReady == <<Good(IssueWith(List(<<FA>>)))>>

Pages ==
    {Page(w, Absent, bs) : w \in WindowShapes \cup {BadJson}, bs \in {<<>>, FallbackReady}}
    \cup {Page(Absent, b, FallbackReady) : b \in {BadJson, Dict(<<>>), Window(Previews(List(<<PB>>), List(<<>>), List(<<PA>>)))}}
    \cup {Page(BadJson, Window(Previews(List(<<PA>>), List(<<>>), List(<<>>))), FallbackReady)}
    \cup {Page(Absent, Absent, <<b>>) : b \in BlockShapes}
    \cup {Page(Absent, Absent, bs) : bs \in SeqsUpTo(SmallBlocks, MaxBlocks)}

----------------------------------------------------------------------------
(* The run of main().                                                      *)

NoList == List(<<>>)

Init ==
    /\ page \in Pages
    /\ pc = "fetch"
    /\ html_content = "unset"
    /\ window_data = Null
    /\ previews = Null
    /\ sec = 1
    /\ idx = 1
    /\ primary = <<>>
    /\ primary_out = "pending"
    /\ jsonld_called = FALSE
    /\ scanned = 0
    /\ articles = Null
    /\ items = <<>>
    /\ rss_content = "none"
    /\ file_opened = FALSE
    /\ file_written = FALSE
    /\ result = "running"
    /\ exc = <<"", "">>

\* main returns v.
Return(v) == pc' = "done" /\ result' = v /\ UNCHANGED exc

\* An exception nothing catches leaves main.
Throw(e) == pc' = "done" /\ result' = "raised" /\ exc' = <<e.exc, pc>>

\* Where extract_articles_from_html goes after the primary stage ended with
\* the list found (lines 188-194): back to main with it, or on to JSON-LD.
after_primary(found) == IF Truthy(List(found)) THEN "check" ELSE "jsonld"

\* Line 359: main gives up when extraction returned a false value.
no_articles(found) == ~Truthy(found)

\* fetch_with_flaresolverr and lines 353-356: the collaborator returns the
\* page text, None, an empty text, or raises (a reply without 'solution').
Fetch ==
    /\ pc = "fetch"
    /\ \E outcome \in {"text", "none", "empty", "raise"} :
        /\ html_content' = outcome
        /\ IF outcome = "raise" THEN Throw(Raise("KeyError"))
           ELSE IF outcome = "text" THEN pc' = "window" /\ UNCHANGED <<result, exc>>
           ELSE Return("False")
    /\ UNCHANGED <<page, window_data, previews, sec, idx, primary, primary_out,
                   jsonld_called, scanned, articles, items, rss_content,
                   file_opened, file_written>>

\* Lines 187-188: extract_window_data, then the test of its result.
ExtractWindowData ==
    /\ pc = "window"
    /\ window_data' = extract_window_data(page)
    /\ IF Truthy(window_data')
       THEN pc' = "previews" /\ UNCHANGED primary_out
       ELSE pc' = "jsonld" /\ primary_out' = "none"
    /\ UNCHANGED <<page, html_content, previews, sec, idx, primary, jsonld_called,
                   scanned, articles, items, rss_content, file_opened,
                   file_written, result, exc>>

\* Lines 96-102: the nested path; KeyError and TypeError return [].
NormalizeBegin ==
    /\ pc = "previews"
    /\ LET pv == article_previews(window_data)
       IN IF IsRaise(pv)
          THEN /\ primary_out' = "nopath"
               /\ pc' = after_primary(<<>>)
               /\ UNCHANGED previews
          ELSE /\ previews' = pv
               /\ pc' = "sections"
               /\ UNCHANGED primary_out
    /\ sec' = 1 /\ idx' = 1 /\ primary' = <<>>
    /\ UNCHANGED <<page, html_content, window_data, jsonld_called, scanned,
                   articles, items, rss_content, file_opened, file_written,
                   result, exc>>

\* The section list being read, or the exception of reading it: previews
\* without get (AttributeError), a section value that cannot be iterated
\* (TypeError).
CurrentSection ==
    LET lst == section_list(previews, sec)
    IN IF IsRaise(lst) THEN lst
       ELSE IF ~Iterable(lst) THEN Raise("TypeError")
       ELSE List(Iter(lst))

\* Line 104 raises: nothing in normalize catches it.
NormalizeSectionRaises ==
    /\ pc = "sections" /\ sec <= Len(SECTIONS)
    /\ IsRaise(CurrentSection)
    /\ primary_out' = "raised"
    /\ Throw(CurrentSection)
    /\ UNCHANGED <<page, html_content, window_data, previews, sec, idx, primary,
                   jsonld_called, scanned, articles, items, rss_content,
                   file_opened, file_written>>

\* Lines 105-121 for the next element of the section.
NormalizeRecord ==
    /\ pc = "sections" /\ sec <= Len(SECTIONS)
    /\ ~IsRaise(CurrentSection)
    /\ idx <= Len(CurrentSection.items)
    /\ LET r == normalize_record(CurrentSection.items[idx])
       IN IF IsRaise(r)
          THEN /\ primary_out' = "raised"
               /\ Throw(r)
               /\ UNCHANGED <<primary, idx>>
          ELSE /\ primary' = Append(primary, r)
               /\ idx' = idx + 1
               /\ UNCHANGED <<primary_out, pc, result, exc>>
    /\ UNCHANGED <<page, html_content, window_data, previews, sec, jsonld_called,
                   scanned, articles, items, rss_content, file_opened, file_written>>

\* The section is exhausted: on to the next one.
NormalizeNextSection ==
    /\ pc = "sections" /\ sec <= Len(SECTIONS)
    /\ ~IsRaise(CurrentSection)
    /\ idx > Len(CurrentSection.items)
    /\ sec' = sec + 1 /\ idx' = 1
    /\ UNCHANGED <<page, pc, html_content, window_data, previews, primary,
                   primary_out, jsonld_called, scanned, articles, items,
                   rss_content, file_opened, file_written, result, exc>>

\* Line 124 and lines 190-193: normalize returns its list.
NormalizeReturn ==
    /\ pc = "sections" /\ sec > Len(SECTIONS)
    /\ primary_out' = IF primary = <<>> THEN "empty" ELSE "nonempty"
    /\ pc' = after_primary(primary)
    /\ articles' = IF after_primary(primary) = "check" THEN List(primary) ELSE articles
    /\ idx' = 1
    /\ UNCHANGED <<page, html_content, window_data, previews, sec, primary,
                   jsonld_called, scanned, items, rss_content, file_opened,
                   file_written, result, exc>>

\* Lines 193-194 and 141-146: extract_articles_from_jsonld is entered.
JsonldBegin ==
    /\ pc = "jsonld"
    /\ jsonld_called' = TRUE
    /\ idx' = 1
    /\ pc' = "blocks"
    /\ UNCHANGED <<page, html_content, window_data, previews, sec, primary,
                   primary_out, scanned, articles, items, rss_content,
                   file_opened, file_written, result, exc>>

\* Lines 147-176 for the next block.
JsonldBlock ==
    /\ pc = "blocks"
    /\ idx <= Len(page.blocks)
    /\ scanned' = idx
    /\ LET got == scan_block(page.blocks[idx])
       IN IF got.t = "absent"
          THEN idx' = idx + 1 /\ UNCHANGED <<pc, articles, result, exc>>
          ELSE IF IsRaise(got)
          THEN Throw(got) /\ UNCHANGED <<idx, articles>>
          ELSE articles' = got /\ pc' = "check" /\ idx' = 1 /\ UNCHANGED <<result, exc>>
    /\ UNCHANGED <<page, html_content, window_data, previews, sec, primary,
                   primary_out, jsonld_called, items, rss_content, file_opened,
                   file_written>>

\* Line 178: no block gave candidates.
JsonldReturnEmpty ==
    /\ pc = "blocks"
    /\ idx > Len(page.blocks)
    /\ articles' = NoList
    /\ pc' = "check"
    /\ idx' = 1
    /\ UNCHANGED <<page, html_content, window_data, previews, sec, primary,
                   primary_out, jsonld_called, scanned, items, rss_content,
                   file_opened, file_written, result, exc>>

\* Lines 358-363 and 277-297: the test of the extracted value, then
\* create_rss_feed is entered.
CheckArticles ==
    /\ pc = "check"
    /\ IF no_articles(articles) THEN Return("False")
       ELSE pc' = "items" /\ UNCHANGED <<result, exc>>
    /\ idx' = 1 /\ items' = <<>>
    /\ UNCHANGED <<page, html_content, window_data, previews, sec, primary,
                   primary_out, jsonld_called, scanned, articles, rss_content,
                   file_opened, file_written>>

\* A serializer that puts the newest item first.
add_item_first(its, item) == <<item>> \o its

\* Lines 323-342: the lines of the item are appended to the document.
add_item(its, item) == Append(its, item)

\* Lines 298-342 for the next record: skipped when it is no dict.
RssItem ==
    /\ pc = "items"
    /\ idx <= Len(Iter(articles))
    /\ LET article == Iter(articles)[idx]
       IN IF ~IsDict(article)
          THEN idx' = idx + 1 /\ UNCHANGED <<items, pc, result, exc>>
          ELSE LET item == rss_item(article, idx)
               IN IF IsRaise(item)
                  THEN Throw(item) /\ UNCHANGED <<items, idx>>
                  ELSE /\ items' = add_item(items, item)
                       /\ idx' = idx + 1
                       /\ UNCHANGED <<pc, result, exc>>
    /\ UNCHANGED <<page, html_content, window_data, previews, sec, primary,
                   primary_out, jsonld_called, scanned, articles, rss_content,
                   file_opened, file_written>>

\* Lines 344-347: create_rss_feed returns the document.
RssReturn ==
    /\ pc = "items"
    /\ idx > Len(Iter(articles))
    /\ rss_content' = "document"
    /\ pc' = "write"
    /\ UNCHANGED <<page, html_content, window_data, previews, sec, idx, primary,
                   primary_out, jsonld_called, scanned, articles, items,
                   file_opened, file_written, result, exc>>

\* Lines 365-372: open and write; either may fail, and the failure is caught.
WriteFile ==
    /\ pc = "write"
    /\ \E outcome \in {"written", "open failed", "write failed"} :
        /\ file_opened' = (outcome # "open failed")
        /\ file_written' = (outcome = "written")
        /\ Return(IF outcome = "written" THEN "True" ELSE "False")
    /\ UNCHANGED <<page, html_content, window_data, previews, sec, idx, primary,
                   primary_out, jsonld_called, scanned, articles, items, rss_content>>

Next ==
    \/ Fetch
    \/ ExtractWindowData
    \/ NormalizeBegin
    \/ NormalizeSectionRaises
    \/ NormalizeRecord
    \/ NormalizeNextSection
    \/ NormalizeReturn
    \/ JsonldBegin
    \/ JsonldBlock
    \/ JsonldReturnEmpty
    \/ CheckArticles
    \/ RssItem
    \/ RssReturn
    \/ WriteFile

Spec == Init /\ [][Next]_vars

----------------------------------------------------------------------------
(* Properties.                                                             *)

\* extract_articles_from_html has returned to main.
Extracted == articles.t # "null"

\* create_rss_feed has returned the document.
FeedReturned == rss_content = "document"

\* The records create_rss_feed iterates over.
Records == Iter(articles)

\* The record the item its was built from.
RecordOf(its) == Records[its.from]

IsAbsoluteUrl(s) ==
    \/ StartsWith(s, <<"h", "t", "t", "p", ":", "/", "/">>)
    \/ StartsWith(s, <<"h", "t", "t", "p", "s", ":", "/", "/">>)

\* C1: extraction never raises and always returns a list whose elements
\* are all mappings, whatever the shape of the decoded data.
C1_ExtractionNeverRaises ==
    /\ exc[2] \notin {"window", "previews", "sections", "jsonld", "blocks"}
    /\ Extracted =>
        /\ IsList(articles)
        /\ \A i \in 1..Len(articles.items) : IsDict(articles.items[i])

\* C2: the JSON-LD fallback is never invoked in a run where the primary
\* stage produced a non-empty list, and is invoked in every run where the
\* primary stage ended without articles.
C2_FallbackIffNoPrimaryArticles ==
    /\ jsonld_called => primary_out # "nonempty"
    /\ primary_out = "nonempty" => ~jsonld_called
    /\ (primary_out \notin {"pending", "nonempty"} /\ pc # "jsonld") => jsonld_called

\* What C2 leaves when the runs in which the primary stage raises are set
\* aside: the fallback is entered exactly when the primary stage returned
\* without articles.
FallbackIffPrimaryReturnedNothing ==
    /\ jsonld_called => primary_out \in {"none", "nopath", "empty"}
    /\ (primary_out \in {"none", "nopath", "empty"} /\ pc # "jsonld") => jsonld_called

\* The extracted value is a list that holds at least one article (a mapping).
HasArticle(v) == IsList(v) /\ \E i \in 1..Len(v.items) : IsDict(v.items[i])

\* C3: main returns success if and only if the fetch returned content,
\* extraction returned at least one article and the file write succeeded;
\* the file is opened only after the two earlier steps succeeded.
C3_SuccessIffFetchedExtractedWritten ==
    /\ result = "True" <=> (html_content = "text" /\ HasArticle(articles) /\ file_written)
    /\ (file_opened \/ file_written) => (html_content = "text" /\ HasArticle(articles))

\* What C3 leaves when "at least one article" is read as main reads it, a
\* true value returned by extraction.
SuccessIffFetchedNonEmptyWritten ==
    /\ result = "True" <=> (html_content = "text" /\ Truthy(articles) /\ file_written)
    /\ (file_opened \/ file_written) => (html_content = "text" /\ Truthy(articles))

\* C4: for every non-empty list of records create_rss_feed completes
\* without raising, whatever the shape of any field of any record.
C4_FeedNeverRaises ==
    ~(result = "raised" /\ exc[2] = "items" /\ IsList(articles))

\* C5: every emitted item has a non-empty title, and the title is
\* "Untitled Article" when the record's headline and name are absent or empty.
C5_TitleNeverEmpty ==
    \A k \in 1..Len(items) :
        /\ items[k].title # <<>>
        /\ (~Truthy(Get(RecordOf(items[k]), "headline", Null))
            /\ ~Truthy(Get(RecordOf(items[k]), "name", Null)))
           => items[k].title = UNTITLED

\* C6: no bare relative path is emitted: every link, every guid marked as a
\* permalink and every image URL of an item is an absolute URL, and the link
\* of a record whose url is a relative reference is anchored to the site base.
C6_NoRelativeUrlEmitted ==
    \A k \in 1..Len(items) :
        LET url == Get(RecordOf(items[k]), "url", Null)
        IN /\ items[k].link # <<>> => IsAbsoluteUrl(items[k].link)
           /\ items[k].image # <<>> => IsAbsoluteUrl(items[k].image)
           /\ (IsStr(url) /\ Truthy(url) /\ ~IsAbsoluteUrl(url.s))
              => (StartsWith(items[k].link, BASE_URL) /\ StartsWith(items[k].guid, BASE_URL))

\* The core YYYY-MM-DDTHH:MM:SS of the accepted shapes, with an optional
\* fraction after it.
IsDateTimeText(s) ==
    /\ Len(s) >= 19
    /\ MatchesNaiveDateTime(SubSeq(s, 1, 19))
    /\ Len(s) > 19 => (s[20] = "." /\ Len(s) > 20 /\ AllDigits(Drop(s, 20)))

IsOffsetText(z) ==
    /\ Len(z) = 6 /\ z[1] \in {"+", "-"} /\ IsDigit(z[2]) /\ IsDigit(z[3])
    /\ z[4] = ":" /\ IsDigit(z[5]) /\ IsDigit(z[6])

\* The three accepted shapes: trailing Z, explicit offset, no timezone.
InAcceptedShape(s) ==
    \/ Len(s) >= 20 /\ s[Len(s)] = "Z" /\ IsDateTimeText(SubSeq(s, 1, Len(s) - 1))
    \/ Len(s) >= 25 /\ IsOffsetText(Drop(s, Len(s) - 6)) /\ IsDateTimeText(SubSeq(s, 1, Len(s) - 6))
    \/ MatchesNaiveDateTime(s)

\* The text ends in a numeric offset: a space, a sign and four digits.
EndsInNumericOffset(s) ==
    /\ Len(s) >= 6
    /\ s[Len(s) - 5] = " "
    /\ s[Len(s) - 4] \in {"+", "-"}
    /\ AllDigits(Drop(s, Len(s) - 4))

\* The value create_rss_feed hands to parse_pubdate_iso_to_rfc822.
DateOf(article) ==
    Or(Or(Get(article, "datePublished", Null), Get(article, "dateCreated", Null)), EmptyStr)

\* C7: the date of an item is empty for every input that is not in one of
\* the three accepted shapes, and no pubDate lacks a numeric offset.
C7_PubDateHasOffsetOrIsEmpty ==
    \A k \in 1..Len(items) :
        LET d == DateOf(RecordOf(items[k]))
        IN /\ items[k].pubDate # <<>> => EndsInNumericOffset(items[k].pubDate)
           /\ ~(IsStr(d) /\ InAcceptedShape(d.s)) => items[k].pubDate = <<>>

\* C8: the guid is the absolute URL when the URL is non-empty and the
\* headline otherwise; isPermaLink is "true" only when the guid is an absolute
\* URL, and then a link with the same value is emitted; a guid that is the
\* headline has isPermaLink "false".
C8_GuidAndPermalink ==
    \A k \in 1..Len(items) :
        /\ items[k].link # <<>> => (items[k].guid = items[k].link /\ IsAbsoluteUrl(items[k].guid))
        /\ items[k].link = <<>> => (items[k].guid = items[k].title /\ items[k].isPermaLink = "false")
        /\ items[k].isPermaLink = "true" =>
            (IsAbsoluteUrl(items[k].guid) /\ items[k].link = items[k].guid)

\* What C8 leaves when "absolute" is read as the program reads it, a text
\* that begins with "http".
GuidAndPermalinkByPrefix ==
    \A k \in 1..Len(items) :
        /\ items[k].link # <<>> => (items[k].guid = items[k].link /\ StartsWith(items[k].guid, HTTP))
        /\ items[k].link = <<>> => (items[k].guid = items[k].title /\ items[k].isPermaLink = "false")
        /\ items[k].isPermaLink = "true" =>
            (StartsWith(items[k].guid, HTTP) /\ items[k].link = items[k].guid)

DictPositions == {i \in 1..Len(Records) : IsDict(Records[i])}

NormalizedSection(name) ==
    LET lst == Get(previews, name, NoList).items
    IN [i \in 1..Len(lst) |-> normalize_record(lst[i])]

\* C9: the items of the returned feed are the dict-shaped records of the
\* extracted list, one item per record, in the order of the list; the list
\* of the primary stage is advances, then departments, then features.
C9_ItemsFollowRecordOrder ==
    /\ FeedReturned =>
        /\ Len(items) = Cardinality(DictPositions)
        /\ \A k \in 1..Len(items) :
            /\ items[k].from \in DictPositions
            /\ items[k] = rss_item(Records[items[k].from], items[k].from)
            /\ k < Len(items) => items[k].from < items[k + 1].from
    /\ (Extracted /\ primary_out = "nonempty") =>
        articles.items = NormalizedSection("advances") \o NormalizedSection("departments")
                         \o NormalizedSection("features")

C9_Witness ==
    /\ FeedReturned
    /\ jsonld_called
    /\ Len(Records) = 3
    /\ Len(items) = 2
    /\ items[1].from = 1 /\ items[2].from = 3

\* The entries of a block among which the issue container is looked for:
\* the '@graph' list of an object that has one, the object itself when it
\* has none, the elements of a list.
EntriesOf(b) ==
    LET data == block_data(b)
    IN IF data.t = "dict" THEN
           (IF HasKey(data, "@graph")
            THEN (IF IsList(Lookup(data, "@graph")) THEN Lookup(data, "@graph").items ELSE <<>>)
            ELSE <<data>>)
       ELSE IF data.t = "list" THEN data.items
       ELSE <<>>

IssueEntries(b) == SelectSeq(EntriesOf(b), IsIssue)

ContainsIssue(b) == IssueEntries(b) # <<>>

\* The hasPart of the first PublicationIssue entry of a block that has one.
PartsOf(b) == Get(Head(IssueEntries(b)), "hasPart", NoList)

Least(S) == CHOOSE k \in S : \A j \in S : k <= j

BlocksWithIssue == {k \in 1..Len(page.blocks) : ContainsIssue(page.blocks[k])}

BlocksWithParts ==
    {k \in BlocksWithIssue : Truthy(PartsOf(page.blocks[k]))}

\* extract_articles_from_jsonld has returned.
JsonldReturned == jsonld_called /\ Extracted

\* C10 as stated: the first block that contains a PublicationIssue entry
\* wins, also when its hasPart list is empty: the function returns that list
\* and examines no later block; without such a block it returns [].
C10_FirstIssueBlockWins ==
    JsonldReturned =>
        IF BlocksWithIssue # {}
        THEN LET parts == PartsOf(page.blocks[Least(BlocksWithIssue)])
             IN /\ scanned = Least(BlocksWithIssue)
                /\ IF Truthy(parts) THEN articles = parts ELSE articles = NoList
        ELSE articles = NoList

\* C10 as amended: the first block whose first PublicationIssue entry has a
\* non-empty hasPart wins: a value the function returns is that hasPart, and
\* no later block is ever examined; a block whose entry has an empty or
\* missing hasPart is passed over; the function returns [] only after
\* examining every block, none of which has such an entry.
C10_FirstNonEmptyIssueWins ==
    /\ BlocksWithParts # {} => scanned <= Least(BlocksWithParts)
    /\ JsonldReturned =>
        IF BlocksWithParts # {}
        THEN /\ articles = PartsOf(page.blocks[Least(BlocksWithParts)])
             /\ scanned = Least(BlocksWithParts)
        ELSE /\ articles = NoList
             /\ scanned = Len(page.blocks)

C10_Witness ==
    /\ JsonldReturned
    /\ Len(page.blocks) = 2
    /\ ContainsIssue(page.blocks[1])
    /\ ~Truthy(PartsOf(page.blocks[1]))
    /\ scanned = 2
    /\ Truthy(articles)

====
